---- MODULE Spec2Model ----
(***************************************************************************)
(* A model of src/ww.js: the ww() property broker.                         *)
(*                                                                         *)
(*   - the path resolver          _getProperty          (ww.js 241-261)    *)
(*   - the property registry      _Property/_properties (ww.js 37-80)      *)
(*   - the readiness engine       PropertiesUnready     (ww.js 144-215)    *)
(*   - the polling timer          Interval              (ww.js 89-133)     *)
(*   - the accessor facade        Ww / ww.prototype.*   (ww.js 268-404)    *)
(*                                                                         *)
(* JavaScript values are records [t, v]: t is what typeof reports, v tells *)
(* the values of one type apart (for objects and functions, v is the heap  *)
(* address; address 0 is null, whose typeof is "object").                  *)
(***************************************************************************)
EXTENDS Integers, Sequences, FiniteSets, TLC

VARIABLES
  heap,               \* the object graphs: address -> field name -> value
  nobj,               \* number of objects allocated so far
  _properties,        \* ww.js 37: id -> _Property
  _i,                 \* ww.js 59: the id counter
  _propertiesUnready, \* ww.js 152: id -> callback
  _isPaused,          \* ww.js 95
  timers,             \* number of armed setTimeout(_callback, 1)
  snap,               \* the ww snapshot the caller holds (NoSnap: none)
  last,               \* what the last operation was, returned and invoked
  fired,              \* id -> invocations by process() since the last set(id, .)
  owed,               \* <<id, cb>> that ready() deferred and no tick has invoked
  ops                 \* operations the callers and the host have performed

vars == <<heap, nobj, _properties, _i, _propertiesUnready, _isPaused, timers,
          snap, last, fired, owed, ops>>

----------------------------------------------------------------------------
(* Bounds of the model *)

\* string lookups (records) a run creates
MaxRecs == 2
\* heap objects: the ww function, the host's context object, and one more
MaxObjs == 3
\* at this many invocations the count of one id's callback stops growing
FiredCap == 2
\* direct field writes the caller makes on one snapshot
MaxWrites == 1
\* operations the callers and the host perform in a run (the timer's
\* firings are not counted)
MaxOps == 4

----------------------------------------------------------------------------
(* JavaScript values *)

Undef == [t |-> "undefined", v |-> 0]
Null == [t |-> "object", v |-> 0]
True == [t |-> "boolean", v |-> 1]
False == [t |-> "boolean", v |-> 0]
Num(n) == [t |-> "number", v |-> n]
Obj(r) == [t |-> "object", v |-> r]
Fun(r) == [t |-> "function", v |-> r]

\* typeof x
TypeOf(x) == x.t

\* the address of the ww function object (Ww, ww.js 386), the default context
WwAddr == 1
WwFun == Fun(WwAddr)
\* the address of the object the host passes as context
HostAddr == 2
HostObj == Obj(HostAddr)

\* x is an object or a function other than null: it has fields of its own
HasFields(x) == TypeOf(x) \in {"object", "function"} /\ x.v # 0

----------------------------------------------------------------------------
(* Path strings are sequences of characters *)

PathA == <<"a">>
PathAB == <<"a", ".", "b">>
PathEmpty == <<>>
PathBlank == <<" ">>
PathStrings == {PathEmpty, PathBlank, PathA, PathAB}

\* the field names the paths above can name
Fields == {<<"a">>, <<"b">>}

\* Trim, had line 390 tested the string's length without trimming it
TrimNone(s) == s

\* the blanks that String.prototype.trim removes at either end
RECURSIVE TrimLeft(_)
TrimLeft(s) ==
  IF s # <<>> /\ Head(s) = " " THEN TrimLeft(Tail(s)) ELSE s

RECURSIVE TrimRight(_)
TrimRight(s) ==
  IF s # <<>> /\ s[Len(s)] = " " THEN TrimRight(SubSeq(s, 1, Len(s) - 1)) ELSE s

\* propertyPathString.trim()
Trim(s) == TrimRight(TrimLeft(s))

\* String.prototype.split('.'): the segments between the dots
RECURSIVE SplitFrom(_, _, _)
SplitFrom(s, cur, acc) ==
  IF s = <<>> THEN Append(acc, cur)
  ELSE IF Head(s) = "." THEN SplitFrom(Tail(s), <<>>, Append(acc, cur))
  ELSE SplitFrom(Tail(s), Append(cur, Head(s)), acc)

Split(s) == SplitFrom(s, <<>>, <<>>)

----------------------------------------------------------------------------
(* The path resolver *)

\* x[f] for a value x that is neither undefined nor null
ReadField(h, x, f) ==
  IF HasFields(x) /\ f \in Fields THEN h[x.v][f] ELSE Undef

\* Walk, had the extension assigned extendValue to the last segment whether
\* or not it held a value
RECURSIVE WalkOverwrite(_, _, _, _, _)
WalkOverwrite(h, propertyPrevious, segs, isExtend, extendValue) ==
  IF segs = <<>> THEN [heap |-> h, value |-> propertyPrevious, threw |-> FALSE]
  ELSE IF propertyPrevious = Undef \/ propertyPrevious = Null
  THEN [heap |-> h, value |-> Undef, threw |-> TRUE]
  ELSE LET propertyString == Head(segs)
           property == ReadField(h, propertyPrevious, propertyString)
       IN IF isExtend /\ (TypeOf(property) = "undefined" \/ Len(segs) = 1)
          THEN IF HasFields(propertyPrevious) /\ propertyString \in Fields
               THEN WalkOverwrite([h EXCEPT ![propertyPrevious.v][propertyString] = extendValue],
                                  extendValue, Tail(segs), isExtend, extendValue)
               ELSE [heap |-> h, value |-> Undef, threw |-> TRUE]
          ELSE IF TypeOf(property) = "undefined"
          THEN [heap |-> h, value |-> Undef, threw |-> FALSE]
          ELSE WalkOverwrite(h, property, Tail(segs), isExtend, extendValue)

\* The loop of _getProperty over the segments that remain. The result is
\* [heap, value, threw]: property access on null or undefined throws a
\* TypeError, and so does, in strict mode (ww.js 30), assignment to a field
\* of a primitive.
RECURSIVE Walk(_, _, _, _, _)
Walk(h, propertyPrevious, segs, isExtend, extendValue) ==
  IF segs = <<>> THEN [heap |-> h, value |-> propertyPrevious, threw |-> FALSE]
  ELSE IF propertyPrevious = Undef \/ propertyPrevious = Null
  THEN [heap |-> h, value |-> Undef, threw |-> TRUE]
  ELSE LET propertyString == Head(segs)
           property == ReadField(h, propertyPrevious, propertyString)
       IN IF TypeOf(property) = "undefined"
          THEN IF isExtend
               THEN IF HasFields(propertyPrevious) /\ propertyString \in Fields
                    THEN Walk([h EXCEPT ![propertyPrevious.v][propertyString] = extendValue],
                              extendValue, Tail(segs), isExtend, extendValue)
                    ELSE [heap |-> h, value |-> Undef, threw |-> TRUE]
               ELSE [heap |-> h, value |-> Undef, threw |-> FALSE]
          ELSE Walk(h, property, Tail(segs), isExtend, extendValue)

\* GetProperty, had it filled in the missing segments (with null) also when
\* it was given no extendValue
GetPropertyFills(h, propertyPathString, context, extendValue) ==
  Walk(h, context, Split(propertyPathString), TRUE,
       IF TypeOf(extendValue) = "undefined" THEN Null ELSE extendValue)

\* _getProperty(propertyPathString, context, extendValue)
GetProperty(h, propertyPathString, context, extendValue) ==
  Walk(h, context, Split(propertyPathString), TypeOf(extendValue) # "undefined", extendValue)

\* _getContext(context)
GetContext(context) ==
  IF TypeOf(context) = "object" \/ TypeOf(context) = "function" THEN context
  ELSE WwFun

----------------------------------------------------------------------------
(* The property registry *)

Ids == 0 .. (MaxRecs - 1)

\* new _Property(value, path, context): the record that the constructor
\* builds when the counter stands at i
NewProperty(i, value, path, context) ==
  [context |-> context, id |-> i, path |-> path, type |-> TypeOf(value), value |-> value]

\* Update, had it also put the record back under the default context
UpdateRebinds(property, value) ==
  [property EXCEPT !.type = TypeOf(value), !.value = value, !.context = WwFun]

\* _Property.prototype.update
Update(property, value) ==
  [property EXCEPT !.type = TypeOf(value), !.value = value]

\* HasProperty, had the lookup taken id 0 for no id
HasPropertyPositive(props, id) == id > 0 /\ id \in DOMAIN props

\* _properties[id] is truthy
HasProperty(props, id) == id \in DOMAIN props

----------------------------------------------------------------------------
(* Snapshots. A caller's variable holds a ww object. The object has fields *)
(* of its own (alias = -1), as new ww(property) makes it; a variable that  *)
(* held the stored _Property itself would have alias = the record's id,    *)
(* and a write through it would change the record.                         *)

NoSnap ==
  [alias |-> -1, context |-> Undef, id |-> -1, path |-> <<>>, type |-> "none",
   value |-> Undef, writes |-> 0]

\* Snapshot, had Ww returned the stored property instead of a copy
SnapshotAlias(property) ==
  [alias |-> property.id, context |-> property.context, id |-> property.id,
   path |-> property.path, type |-> property.type, value |-> property.value,
   writes |-> 0]

\* new ww(property): the loop of ww.js 270-274 copies each own field;
\* writes counts the caller's later writes to the object
Snapshot(property) ==
  [alias |-> -1, context |-> property.context, id |-> property.id,
   path |-> property.path, type |-> property.type, value |-> property.value,
   writes |-> 0]

\* the fields read through the variable s
View(props, s) ==
  IF s.alias = -1 THEN s
  ELSE [s EXCEPT !.context = props[s.alias].context, !.id = props[s.alias].id,
                 !.path = props[s.alias].path, !.type = props[s.alias].type,
                 !.value = props[s.alias].value]

----------------------------------------------------------------------------
(* Callbacks *)

\* the functions callers pass: cbA and cbB return at once; cbThrow throws;
\* cbWrite assigns false to the value field of its argument; cbAgain
\* hands itself to set() again, for the id of its argument
Callbacks == {"cbA", "cbB", "cbThrow", "cbWrite", "cbAgain", "cbProcess"}
\* what a caller passes to ready(): a function, nothing, or a non-function
CallbackArgs == {"cbA", "cbB", "cbThrow", "cbWrite", "none", "notfn"}

\* 'function' === typeof callback
IsFunction(callback) == callback \in Callbacks

Throws(callback) == callback = "cbThrow"

\* the object arg when callback has run on it
Written(callback, arg) ==
  IF callback = "cbWrite" THEN [arg EXCEPT !.value = False] ELSE arg

\* Set, had it not looked the id up in _properties
SetUnchecked(m, id, callback) ==
  IF TypeOf(id) # "number" \/ ~IsFunction(callback) THEN [m EXCEPT !.ret = "false"]
  ELSE [m EXCEPT !.unready = [k \in DOMAIN @ \cup {id.v} |->
                                 IF k = id.v THEN callback ELSE @[k]],
                 !.fired = [k \in DOMAIN @ |-> IF k = id.v THEN 0 ELSE @[k]],
                 !.ret = "true"]

\* PropertiesUnready.set(id, callback), id a JavaScript value
Set(m, id, callback) ==
  IF TypeOf(id) # "number" \/ ~IsFunction(callback) THEN [m EXCEPT !.ret = "false"]
  ELSE IF ~HasProperty(m.props, id.v) THEN [m EXCEPT !.ret = "false"]
  ELSE [m EXCEPT !.unready = [k \in DOMAIN @ \cup {id.v} |->
                                 IF k = id.v THEN callback ELSE @[k]],
                 !.fired[id.v] = 0,
                 !.ret = "true"]

\* the executions of process() the call stack has room for, one inside
\* another; the next one fails with a RangeError
MaxDepth == 2

RECURSIVE Process(_)

\* callback(arg), called on behalf of record id i. The invocation is noted
\* with what held when it began: the value field of arg, whether i was in
\* the pending set (pending), the value the stored record held (stored),
\* and how many executions of process() were under way (depth). The call
\* ends by returning or by throwing; m.arg is the object arg as the
\* callback left it, cbAgain has called set(arg.id, cbAgain), and cbProcess
\* has called process().
Invoke(m, callback, i, arg) ==
  LET noted == [m EXCEPT !.calls = Append(@, [id |-> i, cb |-> callback,
                                              value |-> arg.value,
                                              pending |-> i \in DOMAIN m.unready,
                                              stored |-> IF i \in DOMAIN m.props
                                                         THEN m.props[i].value
                                                         ELSE Undef,
                                              depth |-> m.depth]),
                         !.threw = Throws(callback),
                         !.arg = Written(callback, arg)]
  IN IF callback = "cbAgain"
     THEN [Set(noted, Num(arg.id), callback) EXCEPT !.ret = m.ret]
     ELSE IF callback = "cbProcess"
     THEN [Process(noted) EXCEPT !.ret = m.ret, !.arg = noted.arg]
     ELSE noted

----------------------------------------------------------------------------
(* The readiness engine. Its operations work on a record m of the program  *)
(* state: heap, props (_properties), unready (_propertiesUnready), the     *)
(* invocations made so far (calls), whether an exception is propagating    *)
(* (threw), the argument of the last invocation as its callback left it    *)
(* (arg), and the bookkeeping of fired and owed.                           *)

Machine ==
  [heap |-> heap, props |-> _properties, unready |-> _propertiesUnready,
   calls |-> <<>>, threw |-> FALSE, ret |-> "none", fired |-> fired, owed |-> owed,
   arg |-> NoSnap, depth |-> 0]

\* delete _propertiesUnready[i]
Delete(unready, i) == [k \in DOMAIN unready \ {i} |-> unready[k]]

\* the keys of _propertiesUnready in for-in order: integer keys ascending
RECURSIVE KeysFrom(_, _)
KeysFrom(unready, k) ==
  IF k >= MaxRecs THEN <<>>
  ELSE IF k \in DOMAIN unready THEN <<k>> \o KeysFrom(unready, k + 1)
  ELSE KeysFrom(unready, k + 1)

Keys(unready) == KeysFrom(unready, 0)

Bump(n) == IF n < FiredCap THEN n + 1 ELSE n

\* Visit, had the loop not skipped the keys whose value is still undefined
VisitAlways(m, i) ==
  LET property == m.props[i]
      r == GetProperty(m.heap, property.path, property.context, Undef)
      callback == m.unready[i]
      updated == Update(property, r.value)
      m1 == [m EXCEPT !.props[i] = updated, !.fired[i] = Bump(@),
                      !.owed = @ \ {<<i, callback>>}]
      m2 == Invoke(m1, callback, i, updated)
      m3 == [m2 EXCEPT !.props[i] = m2.arg]
  IN IF m3.threw THEN m3 ELSE [m3 EXCEPT !.unready = Delete(@, i)]

\* Visit, had the loop dropped the keys whose value is still undefined
VisitDrops(m, i) ==
  LET property == m.props[i]
      r == GetProperty(m.heap, property.path, property.context, Undef)
  IN IF r.threw THEN [m EXCEPT !.heap = r.heap, !.threw = TRUE]
     ELSE IF TypeOf(r.value) = "undefined"
     THEN [m EXCEPT !.heap = r.heap, !.unready = Delete(@, i)]
     ELSE VisitAlways(m, i)

\* one iteration of the loop of process() for key i (ww.js 178-188); the
\* callback is given the stored record itself, so what it assigns to its
\* argument is assigned to the record
Visit(m, i) ==
  LET property == m.props[i]
      r == GetProperty(m.heap, property.path, property.context, Undef)
  IN IF r.threw THEN [m EXCEPT !.heap = r.heap, !.threw = TRUE]
     ELSE IF TypeOf(r.value) = "undefined" THEN [m EXCEPT !.heap = r.heap]
     ELSE LET callback == m.unready[i]
              updated == Update(property, r.value)
              m1 == [m EXCEPT !.heap = r.heap, !.props[i] = updated,
                              !.fired[i] = Bump(@),
                              !.owed = @ \ {<<i, callback>>}]
              m2 == Invoke(m1, callback, i, updated)
              m3 == [m2 EXCEPT !.props[i] = m2.arg]
          IN IF m3.threw THEN m3
             ELSE [m3 EXCEPT !.unready = Delete(@, i)]

\* Sweep, had the removal of a fired entry made the loop step over the key
\* that follows it
RECURSIVE SweepSkips(_, _)
SweepSkips(m, ids) ==
  IF ids = <<>> \/ m.threw THEN m
  ELSE IF Head(ids) \notin DOMAIN m.unready THEN SweepSkips(m, Tail(ids))
  ELSE LET n == Visit(m, Head(ids))
       IN IF Head(ids) \notin DOMAIN n.unready /\ Tail(ids) # <<>>
          THEN SweepSkips(n, Tail(Tail(ids)))
          ELSE SweepSkips(n, Tail(ids))

\* the loop of process() over the keys still to visit; a key deleted in
\* the meantime is skipped, an exception ends the loop
RECURSIVE Sweep(_, _)
Sweep(m, ids) ==
  IF ids = <<>> \/ m.threw THEN m
  ELSE IF Head(ids) \notin DOMAIN m.unready THEN Sweep(m, Tail(ids))
  ELSE Sweep(Visit(m, Head(ids)), Tail(ids))

\* PropertiesUnready.process(); m.depth counts the executions under way
Process(m) ==
  IF m.depth >= MaxDepth THEN [m EXCEPT !.threw = TRUE]
  ELSE [Sweep([m EXCEPT !.depth = @ + 1], Keys(m.unready)) EXCEPT !.depth = m.depth]

\* Ready, had it handed every function to set() without calling it
ReadyDefers(m, s, callback) ==
  IF IsFunction(callback)
  THEN [Set(m, Num(s.id), callback) EXCEPT !.ret = IF s.type # "undefined" THEN "true" ELSE "false"]
  ELSE [m EXCEPT !.ret = IF s.type # "undefined" THEN "true" ELSE "false"]

\* ww.prototype.ready(callback) on snapshot s; the callback is given the
\* ww object itself
Ready(m, s, callback) ==
  IF s.type # "undefined"
  THEN IF IsFunction(callback)
       THEN LET m1 == Invoke(m, callback, s.id, s)
                m2 == IF s.alias = -1 THEN m1
                      ELSE [m1 EXCEPT !.props[s.alias].value = m1.arg.value]
            IN IF m2.threw THEN m2 ELSE [m2 EXCEPT !.ret = "true"]
       ELSE [m EXCEPT !.ret = "true"]
  ELSE IF IsFunction(callback)
       THEN LET m1 == Set(m, Num(s.id), callback)
            IN [m1 EXCEPT !.ret = "false",
                          !.owed = IF m1.ret = "true" THEN @ \cup {<<s.id, callback>>} ELSE @]
       ELSE [m EXCEPT !.ret = "false"]

----------------------------------------------------------------------------
(* The state after construction *)

\* What the last operation was: its name (op), the typeof of its argument
\* (kind), the argument (arg when it is a path string, num when it is a
\* number), the record id and the callback it was given, how it ended
\* (ret: "true", "false", "undefined", "snapshot", "value", "throw"), the
\* value it returned, and the callback invocations it made, in order.
Last(op, kind, arg, num, id, cb, ret, val, calls) ==
  [op |-> op, kind |-> kind, arg |-> arg, num |-> num, id |-> id, cb |-> cb,
   ret |-> ret, val |-> val, calls |-> calls]

\* The host's object begins with its field a holding a number (as the
\* tests' mock begins with existentProperty); Ww has neither a nor b.
Init ==
  /\ heap = [o \in 1 .. MaxObjs |->
               [f \in Fields |-> IF o = HostAddr /\ f = <<"a">> THEN Num(42) ELSE Undef]]
  /\ nobj = HostAddr
  /\ _properties = <<>>
  /\ _i = 0
  /\ _propertiesUnready = <<>>
  /\ _isPaused = FALSE
  /\ timers = 1
  /\ snap = NoSnap
  /\ last = Last("init", "none", <<>>, 0, -1, "none", "undefined", Undef, <<>>)
  /\ fired = [i \in Ids |-> 0]
  /\ owed = {}
  /\ ops = 0

\* the engine's part of the state becomes what m holds
Apply(m) ==
  /\ heap' = m.heap
  /\ _properties' = m.props
  /\ _propertiesUnready' = m.unready
  /\ fired' = m.fired
  /\ owed' = m.owed

\* how an operation that ran on m ended
Outcome(m) == IF m.threw THEN "throw" ELSE m.ret

\* the caller's ww object, as its methods read it through this
This == View(_properties, snap)

----------------------------------------------------------------------------
(* The facade: Ww(propertyPathString, context) *)

\* the contexts callers pass: none, the host's object, null
ContextArgs == {Undef, HostObj, Null}

\* Ww with a string (ww.js 389-394)
AccessPath(propertyPathString, c) ==
  IF Len(Trim(propertyPathString)) = 0
  THEN /\ last' = Last("access", "string", propertyPathString, 0, -1, "none",
                       "undefined", Undef, <<>>)
       /\ UNCHANGED <<heap, nobj, _properties, _i, _propertiesUnready, _isPaused,
                      timers, snap, fired, owed>>
  ELSE LET context == GetContext(c)
           r == GetProperty(heap, propertyPathString, context, Undef)
           property == NewProperty(_i, r.value, propertyPathString, context)
       IN IF r.threw
          THEN /\ heap' = r.heap
               /\ last' = Last("access", "string", propertyPathString, 0, -1, "none",
                               "throw", Undef, <<>>)
               /\ UNCHANGED <<nobj, _properties, _i, _propertiesUnready, _isPaused,
                              timers, snap, fired, owed>>
          ELSE /\ _i < MaxRecs
               /\ heap' = r.heap
               /\ _properties' = [k \in DOMAIN _properties \cup {_i} |->
                                    IF k = _i THEN property ELSE _properties[k]]
               /\ _i' = _i + 1
               /\ snap' = Snapshot(property)
               /\ last' = Last("access", "string", propertyPathString, 0, _i, "none",
                               "snapshot", Undef, <<>>)
               /\ UNCHANGED <<nobj, _propertiesUnready, _isPaused, timers, fired, owed>>

\* Ww with a number (ww.js 395-400)
AccessId(n) ==
  IF ~HasProperty(_properties, n)
  THEN /\ last' = Last("access", "number", <<>>, n, -1, "none", "undefined", Undef, <<>>)
       /\ UNCHANGED <<heap, nobj, _properties, _i, _propertiesUnready, _isPaused,
                      timers, snap, fired, owed>>
  ELSE /\ snap' = Snapshot(_properties[n])
       /\ last' = Last("access", "number", <<>>, n, n, "none", "snapshot", Undef, <<>>)
       /\ UNCHANGED <<heap, nobj, _properties, _i, _propertiesUnready, _isPaused,
                      timers, fired, owed>>

\* Ww with anything else (nothing, a boolean, an object): no case of the
\* switch matches
AccessOther ==
  /\ last' = Last("access", "undefined", <<>>, 0, -1, "none", "undefined", Undef, <<>>)
  /\ UNCHANGED <<heap, nobj, _properties, _i, _propertiesUnready, _isPaused,
                 timers, snap, fired, owed>>

----------------------------------------------------------------------------
(* The methods of a ww object *)

\* ww.prototype.getValue(defaultValue)
GetValue(defaultValue) ==
  /\ snap # NoSnap
  /\ LET r == GetProperty(heap, This.path, This.context, Undef)
         value == IF TypeOf(r.value) # "undefined" THEN r.value ELSE defaultValue
     IN /\ heap' = r.heap
        /\ last' = IF r.threw
                   THEN Last("getValue", TypeOf(defaultValue), <<>>, 0, This.id, "none", "throw", Undef, <<>>)
                   ELSE Last("getValue", TypeOf(defaultValue), <<>>, 0, This.id, "none", "value", value, <<>>)
  /\ UNCHANGED <<nobj, _properties, _i, _propertiesUnready, _isPaused, timers,
                 snap, fired, owed>>

\* ww.prototype.getType(): typeof this.getValue()
GetType ==
  /\ snap # NoSnap
  /\ LET r == GetProperty(heap, This.path, This.context, Undef)
     IN /\ heap' = r.heap
        /\ last' = IF r.threw
                   THEN Last("getType", "none", <<>>, 0, This.id, "none", "throw", Undef, <<>>)
                   ELSE Last("getType", TypeOf(r.value), <<>>, 0, This.id, "none", "value", Undef, <<>>)
  /\ UNCHANGED <<nobj, _properties, _i, _propertiesUnready, _isPaused, timers,
                 snap, fired, owed>>

\* the path of the ww object s resolves to a defined value in heap h
Resolves(h, s) ==
  LET r == GetProperty(h, s.path, s.context, Undef)
  IN ~r.threw /\ TypeOf(r.value) # "undefined"

\* ww.prototype.extend(value): without a value, a new empty object is used
Extend(value) ==
  /\ snap # NoSnap
  /\ TypeOf(value) # "undefined" \/ nobj < MaxObjs \/ Resolves(heap, This)
  /\ LET fresh == TypeOf(value) = "undefined"
         r == GetProperty(heap, This.path, This.context,
                          IF fresh THEN Obj(nobj + 1) ELSE value)
     IN /\ heap' = r.heap
        /\ nobj' = IF fresh /\ r.heap # heap THEN nobj + 1 ELSE nobj
        /\ last' = IF r.threw
                   THEN Last("extend", TypeOf(value), <<>>, 0, This.id, "none", "throw", Undef, <<>>)
                   ELSE Last("extend", TypeOf(value), <<>>, 0, This.id, "none", "value", r.value, <<>>)
  /\ UNCHANGED <<_properties, _i, _propertiesUnready, _isPaused, timers, snap,
                 fired, owed>>

\* ww.prototype.ready(callback); kind notes this.type as the call found it
WhenReady(callback) ==
  /\ snap # NoSnap
  /\ LET m == Ready(Machine, This, callback)
     IN /\ Apply(m)
        /\ snap' = IF m.calls # <<>> /\ snap.alias = -1 THEN m.arg ELSE snap
        /\ last' = Last("ready", This.type, <<>>, 0, This.id, callback, Outcome(m), Undef, m.calls)
  /\ UNCHANGED <<nobj, _i, _isPaused, timers>>

\* object[field] = x on the object the caller's variable holds
SnapWrite(field, x) ==
  /\ snap # NoSnap
  /\ snap.writes < MaxWrites
  /\ IF snap.alias = -1
     THEN /\ snap' = [snap EXCEPT ![field] = x, !.writes = @ + 1]
          /\ UNCHANGED _properties
     ELSE /\ snap' = [snap EXCEPT !.writes = @ + 1]
          /\ _properties' = [_properties EXCEPT ![snap.alias][field] = x]
  /\ last' = Last("write", field, <<>>, 0, This.id, "none", "undefined", Undef, <<>>)
  /\ UNCHANGED <<heap, nobj, _i, _propertiesUnready, _isPaused, timers, fired, owed>>

----------------------------------------------------------------------------
(* The engine's public operations and the timer *)

\* ww._propertiesUnready.set(id, callback), called directly
Schedule(id, callback) ==
  /\ LET m == Set(Machine, id, callback)
     IN /\ Apply(m)
        /\ last' = Last("set", TypeOf(id), <<>>, id.v, -1, callback, Outcome(m), Undef, m.calls)
  /\ UNCHANGED <<nobj, _i, _isPaused, timers, snap>>

\* ww._propertiesUnready.process(), called directly
ProcessCall ==
  /\ LET m == Process(Machine)
     IN /\ Apply(m)
        /\ last' = Last("process", "direct", <<>>, 0, -1, "none",
                        IF m.threw THEN "throw" ELSE "undefined", Undef, m.calls)
  /\ UNCHANGED <<nobj, _i, _isPaused, timers, snap>>

\* Interval._callback: a timer fires; an exception thrown by process()
\* leaves the function before it arms the next timer
TimerFire ==
  /\ timers > 0
  /\ LET m == IF _isPaused THEN Machine ELSE Process(Machine)
     IN /\ Apply(m)
        /\ timers' = IF m.threw THEN timers - 1 ELSE timers
        /\ last' = Last("process", IF _isPaused THEN "paused" ELSE "timer", <<>>, 0, -1, "none",
                        IF m.threw THEN "throw" ELSE "undefined", Undef, m.calls)
  /\ UNCHANGED <<nobj, _i, _isPaused, snap>>

\* Interval.pause
Pause ==
  /\ _isPaused' = TRUE
  /\ last' = Last("pause", "none", <<>>, 0, -1, "none", "undefined", Undef, <<>>)
  /\ UNCHANGED <<heap, nobj, _properties, _i, _propertiesUnready, timers, snap,
                 fired, owed>>

\* Interval.resume
Resume ==
  /\ _isPaused' = FALSE
  /\ last' = Last("resume", "none", <<>>, 0, -1, "none", "undefined", Undef, <<>>)
  /\ UNCHANGED <<heap, nobj, _properties, _i, _propertiesUnready, timers, snap,
                 fired, owed>>

----------------------------------------------------------------------------
(* The host: code outside ww that fills in the context objects *)

\* The host fills in what the paths of the model name: field a of its
\* context object and field b of the objects made since.
HostTargets == {<<HostAddr, <<"a">>>>} \cup {<<r, <<"b">>>> : r \in (HostAddr + 1) .. nobj}

\* what the host assigns: undefined, a number, null, an object already
\* there, or (Obj(nobj + 1)) a new empty object
HostValues ==
  {Undef, Num(42), Null} \cup {Obj(r) : r \in (HostAddr + 1) .. (nobj + 1)}

\* object[field] = x
HostSet(o, field, x) ==
  /\ x.v <= MaxObjs
  /\ x # Obj(o)
  /\ heap[o][field] # x
  /\ heap' = [heap EXCEPT ![o][field] = x]
  /\ nobj' = IF x = Obj(nobj + 1) THEN nobj + 1 ELSE nobj
  /\ last' = Last("host", "none", <<>>, 0, -1, "none", "undefined", Undef, <<>>)
  /\ UNCHANGED <<_properties, _i, _propertiesUnready, _isPaused, timers, snap,
                 fired, owed>>

----------------------------------------------------------------------------
(* The specification *)

\* what a caller writes into a field of a ww object
WriteValues(field) ==
  CASE field = "value" -> {False}
    [] field = "type" -> {"undefined"}
    [] field = "id" -> {(This.id + 1) % MaxRecs}
    [] field = "path" -> {PathA}
    [] field = "context" -> {HostObj}

SnapFields == {"value", "type", "id", "path", "context"}

\* what callers pass to extend(): nothing, a number, and an object that has
\* fields of its own (the host's context object)
ExtendArgs == {Undef, Num(42), HostObj}

\* the ids callers pass to set(): numbers, issued or not yet, and a non-number
IdArgs == {Num(n) : n \in Ids} \cup {True}

\* the callbacks callers pass to set(): functions and a non-function
SetCallbackArgs == {"cbB", "cbAgain", "cbProcess", "notfn"}

\* the numbers callers pass to Ww: negative, issued or not yet
NumberArgs == -1 .. (MaxRecs - 1)

\* an operation A of a caller or of the host
Caller(A) ==
  /\ ops < MaxOps
  /\ A
  /\ ops' = ops + 1

\* the timer's own step
Timer(A) ==
  /\ A
  /\ ops' = ops

Next ==
  \/ \E p \in PathStrings, c \in ContextArgs : Caller(AccessPath(p, c))
  \/ \E n \in NumberArgs : Caller(AccessId(n))
  \/ Caller(AccessOther)
  \/ \E d \in {Undef, False} : Caller(GetValue(d))
  \/ Caller(GetType)
  \/ \E x \in ExtendArgs : Caller(Extend(x))
  \/ \E cb \in CallbackArgs : Caller(WhenReady(cb))
  \/ \E f \in SnapFields : \E x \in WriteValues(f) : Caller(SnapWrite(f, x))
  \/ \E id \in IdArgs, cb \in SetCallbackArgs : Caller(Schedule(id, cb))
  \/ Caller(ProcessCall)
  \/ Timer(TimerFire)
  \/ Caller(Pause)
  \/ Caller(Resume)
  \/ \E t \in HostTargets, x \in HostValues : Caller(HostSet(t[1], t[2], x))

Spec == Init /\ [][Next]_vars

----------------------------------------------------------------------------
(* Properties *)

\* every character of the string s is a blank (so is the empty string)
AllBlank(s) == \A k \in 1 .. Len(s) : s[k] = " "

\* the ids that string lookups have been given so far
Issued == 0 .. (_i - 1)

\* the last operation was a tick: process() ran, called directly or by the timer
Ticked == last.op = "process" /\ last.kind # "paused"

\* C1: a callback that ready() deferred is invoked at most once: as long as
\* nothing is set again for its id, the ticks that follow invoke it no more
\* than one time in all.
C1_AtMostOnce == \A i \in Ids : fired[i] <= 1

\* C2: ready(cb) on a ww object taken while its path was absent, the path
\* still being absent, returns false and invokes nothing; set() invokes
\* nothing and leaves the records as they are; a deferred callback is
\* invoked only by a tick, and then the path of its record resolves to the
\* defined value the callback is given.
C2_DeferredOnlyInTick ==
  [][ /\ (last'.op = "ready" /\ last'.kind = "undefined" /\ ~Resolves(heap, This))
           => (last'.ret = "false" /\ last'.calls = <<>> /\ _properties' = _properties)
      /\ last'.op = "set"
           => (last'.calls = <<>> /\ _properties' = _properties /\ heap' = heap)
      /\ last'.calls # <<>>
           => (Ticked' \/ (last'.op = "ready" /\ last'.kind # "undefined"))
      /\ Ticked'
           => \A k \in 1 .. Len(last'.calls) :
                LET e == last'.calls[k]
                    r == GetProperty(heap, _properties[e.id].path, _properties[e.id].context, Undef)
                IN /\ e.id \in DOMAIN _propertiesUnready
                   /\ e.cb = _propertiesUnready[e.id]
                   /\ ~r.threw
                   /\ TypeOf(r.value) # "undefined"
                   /\ e.value = r.value
    ]_vars

\* C2's case: ready(cb) has just deferred a function on an absent path
C2_Witness ==
  /\ last.op = "ready"
  /\ last.kind = "undefined"
  /\ IsFunction(last.cb)
  /\ last.ret = "false"
  /\ ~Resolves(heap, This)
  /\ This.id \in DOMAIN _propertiesUnready

\* C3: every callback that ready() deferred is invoked once its path
\* resolves and ticks occur: when a tick has run to its end, no deferred
\* callback whose record's path resolves is still waiting to be invoked,
\* whichever ww object of the record it was given to.
C3_EveryDeferredCallbackFires ==
  (Ticked /\ last.ret # "throw")
    => \A e \in owed : ~Resolves(heap, _properties[e[1]])

\* C4: ready(cb) with a function, on a ww object taken of a resolved path
\* that still resolves, invokes cb exactly once within the call, with that
\* ww object, returns true (when cb returns), and leaves the pending set as
\* it was.
C4_ResolvedRunsNow ==
  [][ (/\ last'.op = "ready"
       /\ last'.kind # "undefined"
       /\ IsFunction(last'.cb)
       /\ Resolves(heap, This))
      => /\ Len(last'.calls) = 1
         /\ last'.calls[1].cb = last'.cb
         /\ last'.calls[1].id = This.id
         /\ last'.calls[1].value = This.value
         /\ (~Throws(last'.cb) => last'.ret = "true")
         /\ _propertiesUnready' = _propertiesUnready
    ]_vars

\* C4's case: ready(cb) on a resolved path has just called cb
C4_Witness ==
  /\ last.op = "ready"
  /\ last.kind # "undefined"
  /\ IsFunction(last.cb)
  /\ Resolves(heap, This)
  /\ last.ret = "true"
  /\ Len(last.calls) = 1

\* C5: ready() goes by the value now at the path, as getValue() does: on a
\* ww object whose fields the caller has not written, ready(cb) returns true
\* exactly when the path resolves to a defined value at that moment; and
\* then, with a function, it has invoked it and has registered nothing.
C5_ReadyByCurrentValue ==
  [][ (last'.op = "ready" /\ snap.writes = 0 /\ last'.ret # "throw")
      => /\ (last'.ret = "true" <=> Resolves(heap, This))
         /\ (Resolves(heap, This)
               => /\ _propertiesUnready' = _propertiesUnready
                  /\ (IsFunction(last'.cb) => Len(last'.calls) = 1))
    ]_vars

\* C6: invalid deferral requests are declined without effect: set(id, cb)
\* returns false and leaves the pending set alone when id is no issued
\* record id or cb is no function, and returns true having stored cb under
\* id otherwise; ready() without a function returns the readiness of the
\* path at that moment and leaves the pending set alone.
C6_InvalidDeferralsDeclined ==
  [][ /\ last'.op = "set"
           => IF last'.kind = "number" /\ last'.num \in Issued /\ IsFunction(last'.cb)
              THEN /\ last'.ret = "true"
                   /\ DOMAIN _propertiesUnready' = DOMAIN _propertiesUnready \cup {last'.num}
                   /\ _propertiesUnready'[last'.num] = last'.cb
                   /\ \A k \in DOMAIN _propertiesUnready \ {last'.num} :
                        _propertiesUnready'[k] = _propertiesUnready[k]
              ELSE /\ last'.ret = "false"
                   /\ _propertiesUnready' = _propertiesUnready
      /\ (last'.op = "ready" /\ ~IsFunction(last'.cb) /\ snap.writes = 0)
           => /\ (last'.ret = "true" <=> Resolves(heap, This))
              /\ last'.ret \in {"true", "false"}
              /\ last'.calls = <<>>
              /\ _propertiesUnready' = _propertiesUnready
    ]_vars

\* C7: Ww with an empty or all-blank string, or with what is neither a
\* string nor a number, returns undefined whatever the context, and leaves
\* the records, the counter, the pending set and the contexts as they are.
C7_BlankIsAbsent ==
  [][ (/\ last'.op = "access"
       /\ \/ last'.kind \notin {"string", "number"}
          \/ (last'.kind = "string" /\ AllBlank(last'.arg)))
      => /\ last'.ret = "undefined"
         /\ _properties' = _properties
         /\ _i' = _i
         /\ _propertiesUnready' = _propertiesUnready
         /\ heap' = heap
         /\ snap' = snap
    ]_vars

\* C7's case: Ww(' ') has just returned undefined, with a record in store
C7_Witness ==
  /\ last.op = "access"
  /\ last.kind = "string"
  /\ last.arg = PathBlank
  /\ last.ret = "undefined"
  /\ _i = 1

\* C8: the records in store are those of the ids issued so far, none is
\* ever missing; and Ww(n) returns a ww object, of id n, exactly when n is
\* an issued id: a negative or not yet issued n yields undefined.
C8_IssuedIdsRetrievable ==
  /\ DOMAIN _properties = Issued
  /\ \A k \in DOMAIN _properties : _properties[k].id = k
  /\ (last.op = "access" /\ last.kind = "number")
       => /\ last.ret \in {"snapshot", "undefined"}
          /\ (last.ret = "snapshot" <=> last.num \in Issued)
          /\ (last.ret = "snapshot" => snap.alias = -1 /\ snap.id = last.num)

\* C8's case: the first id is looked up after a second record was made
C8_Witness ==
  /\ last.op = "access"
  /\ last.kind = "number"
  /\ last.num = 0
  /\ last.ret = "snapshot"
  /\ _i = 2

\* C9: every Ww with a string that is not blank makes exactly one record,
\* whose id is the number of records made before it; no other operation
\* makes a record or moves the counter.
C9_OneRecordPerLookup ==
  [][ IF last'.op = "access" /\ last'.kind = "string" /\ ~AllBlank(last'.arg)
      THEN /\ _i' = _i + 1
           /\ DOMAIN _properties' = DOMAIN _properties \cup {_i}
           /\ _properties'[_i].id = Cardinality(DOMAIN _properties)
           /\ \A k \in DOMAIN _properties : _properties'[k] = _properties[k]
      ELSE /\ _i' = _i
           /\ DOMAIN _properties' = DOMAIN _properties
    ]_vars

\* C10: a write to a field of a ww object changes neither the stored
\* records nor any field of the context objects; and the ww object that
\* Ww(id) returns shows what the record holds.
C10_SnapshotIsolation ==
  [][ /\ last'.op = "write" => (_properties' = _properties /\ heap' = heap)
      /\ (last'.op = "access" /\ last'.kind = "number" /\ last'.ret = "snapshot")
           => /\ snap'.alias = -1
              /\ snap'.value = _properties[last'.num].value
              /\ snap'.type = _properties[last'.num].type
              /\ snap'.path = _properties[last'.num].path
              /\ snap'.context = _properties[last'.num].context
    ]_vars

\* C10's case: the caller has overwritten the value field of its ww object,
\* and the record still holds the value it had
C10_Witness ==
  /\ last.op = "write"
  /\ last.kind = "value"
  /\ snap.value = False
  /\ last.id \in DOMAIN _properties
  /\ _properties[last.id].value = Num(42)

RECURSIVE RefWalk(_, _, _)
RefWalk(h, x, segs) ==
  IF segs = <<>> THEN x
  ELSE IF ~HasFields(x) \/ Head(segs) \notin Fields THEN Undef
  ELSE IF h[x.v][Head(segs)] = Undef THEN Undef
  ELSE RefWalk(h, h[x.v][Head(segs)], Tail(segs))

\* C12: getValue(d) returns what the walk of the path from the context
\* reaches when that is a defined value, and d (undefined without d) when a
\* segment is missing on the way; it returns normally and leaves the
\* contexts as they are.
C12_GetValueFollowsTheWalk ==
  [][ last'.op = "getValue"
      => LET v == RefWalk(heap, This.context, Split(This.path))
             d == IF last'.kind = "undefined" THEN Undef ELSE False
         IN /\ last'.ret = "value"
            /\ last'.val = IF v # Undef THEN v ELSE d
            /\ heap' = heap
    ]_vars

C14_ExtendCreatesTheChain ==
  [][ (last'.op = "extend" /\ ~Resolves(heap, This))
      => LET v == CASE last'.kind = "undefined" -> Obj(nobj + 1)
                    [] last'.kind = "number" -> Num(42)
                    [] last'.kind = "object" -> HostObj
             r == GetProperty(heap', This.path, This.context, Undef)
         IN /\ last'.ret = "value"
            /\ last'.val = v
            /\ ~r.threw
            /\ r.value = v
    ]_vars

\* C15: extend updates the stored record: when extend has returned, on a
\* ww object whose fields the caller has not written, the record of its id
\* holds the value extend returned, which is the value now at the path,
\* with the type of that value, and its id, path and context are as before.
C15_ExtendUpdatesTheRecord ==
  [][ (last'.op = "extend" /\ last'.ret = "value" /\ snap.writes = 0)
      => /\ _properties'[This.id].value = last'.val
         /\ _properties'[This.id].type = TypeOf(last'.val)
         /\ _properties'[This.id].id = _properties[This.id].id
         /\ _properties'[This.id].path = _properties[This.id].path
         /\ _properties'[This.id].context = _properties[This.id].context
    ]_vars

\* C16: in a tick, for an entry whose path resolves, the record is updated,
\* then the entry is removed, and then the callback is invoked: when the
\* callback begins the record holds the value found and the id is not in
\* the pending set, and the entry that a callback makes by scheduling its
\* own id again is in the pending set when the tick has ended.
C16_UpdateRemoveInvoke ==
  [][ Ticked'
      => \A k \in 1 .. Len(last'.calls) :
           LET e == last'.calls[k]
           IN /\ e.stored = e.value
              /\ ~e.pending
              /\ (e.cb = "cbAgain" /\ last'.ret # "throw")
                   => /\ e.id \in DOMAIN _propertiesUnready'
                      /\ _propertiesUnready'[e.id] = "cbAgain"
    ]_vars

\* C17: the argument that a tick gives a deferred callback shows the value
\* found at the path of the record at that tick, the stored record holds
\* that value when the callback begins, and the argument is a copy: when
\* the tick is over the record still holds that value and its type,
\* whatever the callback assigned to the fields of its argument.
C17_TickArgumentIsACopy ==
  [][ Ticked'
      => \A k \in 1 .. Len(last'.calls) :
           LET e == last'.calls[k]
               r == GetProperty(heap, _properties[e.id].path, _properties[e.id].context, Undef)
           IN /\ e.value = r.value
              /\ e.stored = r.value
              /\ _properties'[e.id].value = r.value
              /\ _properties'[e.id].type = TypeOf(r.value)
    ]_vars

\* C18: a timer firing while the engine is paused removes no pending entry,
\* updates no record and invokes nothing; pause and resume leave the pending
\* set as it is; when resume has returned a timer firing is to come, and a
\* timer firing while the engine is not paused invokes the callback of
\* every pending entry whose path resolves.
C18_PauseAndResume ==
  [][ /\ (last'.op = "process" /\ last'.kind = "paused")
           => /\ _propertiesUnready' = _propertiesUnready
              /\ _properties' = _properties
              /\ heap' = heap
              /\ last'.calls = <<>>
      /\ last'.op \in {"pause", "resume"}
           => /\ _propertiesUnready' = _propertiesUnready
              /\ _properties' = _properties
              /\ _isPaused' = (last'.op = "pause")
      /\ last'.op = "resume" => timers' > 0
      /\ (last'.op = "process" /\ last'.kind = "timer")
           => \A i \in DOMAIN _propertiesUnready :
                Resolves(heap, _properties[i])
                  => \E k \in 1 .. Len(last'.calls) : last'.calls[k].id = i
    ]_vars

\* C19: no operation of ww ends by an exception of its own: Ww, getValue,
\* getType, extend, ready, set and the tick return normally for every path
\* and every context, unless a callback they invoked has thrown.
C19_NothingThrows ==
  last.ret = "throw"
    => \E k \in 1 .. Len(last.calls) : Throws(last.calls[k].cb)

\* C20: extend(obj) on a path that resolves to an object merges obj into
\* it without overwriting: afterwards every field of that object that held
\* a value holds it still, and every field it lacked holds what obj holds
\* in that field.
C20_ExtendMerges ==
  [][ (/\ last'.op = "extend"
       /\ last'.kind = "object"
       /\ Resolves(heap, This)
       /\ HasFields(GetProperty(heap, This.path, This.context, Undef).value))
      => LET target == GetProperty(heap, This.path, This.context, Undef).value.v
         IN \A f \in Fields :
              heap'[target][f] = IF heap[target][f] # Undef THEN heap[target][f]
                                 ELSE heap[HostAddr][f]
    ]_vars

\* C21: when extend fills in a path of two segments whose first segment is
\* missing, the first segment is given a new empty object, which is not the
\* value given to extend, and the second segment alone is given that value:
\* the two segments hold different things, the first holds nothing but the
\* second, and after extend() the second holds no field at all.
C21_FreshContainers ==
  [][ (/\ last'.op = "extend"
       /\ Len(Split(This.path)) = 2
       /\ HasFields(This.context)
       /\ ReadField(heap, This.context, Split(This.path)[1]) = Undef)
      => LET first == heap'[This.context.v][Split(This.path)[1]]
             second == ReadField(heap', first, Split(This.path)[2])
         IN /\ last'.ret = "value"
            /\ HasFields(first)
            /\ first.v > nobj
            /\ second = last'.val
            /\ second # first
            /\ \A f \in Fields \ {Split(This.path)[2]} : heap'[first.v][f] = Undef
            /\ last'.kind = "undefined"
                 => /\ HasFields(second)
                    /\ \A f \in Fields : heap'[second.v][f] = Undef
    ]_vars

\* C22: a pending entry stays pending until it fires. A tick that does not
\* find the path of a pending entry resolved leaves the entry, its callback
\* and its record as they were and does not invoke its callback, tick after
\* tick; and an entry leaves the pending set only in a tick that found its
\* path resolved and invoked its callback.
C22_PendingUntilFired ==
  [][ \A i \in DOMAIN _propertiesUnready :
        /\ i \notin DOMAIN _propertiesUnready'
             => /\ Ticked'
                /\ Resolves(heap, _properties[i])
                /\ \E k \in 1 .. Len(last'.calls) :
                      /\ last'.calls[k].id = i
                      /\ last'.calls[k].cb = _propertiesUnready[i]
        /\ (Ticked' /\ ~Resolves(heap, _properties[i]))
             => /\ i \in DOMAIN _propertiesUnready'
                /\ _propertiesUnready'[i] = _propertiesUnready[i]
                /\ _properties'[i] = _properties[i]
                /\ \A k \in 1 .. Len(last'.calls) : last'.calls[k].id # i
    ]_vars

\* C22's case: the timer has run a tick over a pending entry whose path is
\* absent, the entry is still pending, and nothing was invoked
C22_Witness ==
  /\ last.op = "process"
  /\ last.kind = "timer"
  /\ last.ret # "throw"
  /\ last.calls = <<>>
  /\ \E i \in DOMAIN _propertiesUnready :
        LET r == GetProperty(heap, _properties[i].path, _properties[i].context, Undef)
        IN ~r.threw /\ TypeOf(r.value) = "undefined"

\* C23: one tick sweeps the whole pending set. When a tick has run to its
\* end, every entry that was pending when it began and whose path resolved
\* has had its callback invoked and is no longer pending, however many
\* entries fire in the tick and whatever the sweep removed on its way.
C23_WholeSweep ==
  [][ (Ticked' /\ last'.ret # "throw")
      => \A i \in DOMAIN _propertiesUnready :
           Resolves(heap, _properties[i])
             => /\ \E k \in 1 .. Len(last'.calls) :
                      /\ last'.calls[k].id = i
                      /\ last'.calls[k].cb = _propertiesUnready[i]
                /\ i \notin DOMAIN _propertiesUnready'
    ]_vars

\* C23's case: one tick of the timer has invoked the callbacks of two
\* entries, one after the other, and has left nothing pending
C23_Witness ==
  /\ last.op = "process"
  /\ last.kind = "timer"
  /\ last.ret # "throw"
  /\ Len(last.calls) = 2
  /\ last.calls[1].id # last.calls[2].id
  /\ last.calls[2].pending
  /\ _propertiesUnready = <<>>

\* C24: a firing never re-enters the tick. Every callback a tick invokes is
\* invoked while one execution of process() is under way, not more, also
\* when the callback itself calls process(); and no tick invokes the
\* callback of the same entry twice.
C24_NoReentry ==
  Ticked
    => /\ \A k \in 1 .. Len(last.calls) : last.calls[k].depth = 1
       /\ \A k, l \in 1 .. Len(last.calls) :
            k # l => last.calls[k].id # last.calls[l].id

\* C25: the polling timer never stops and never multiplies. Whatever has
\* happened, and after every firing of the timer, paused or not, returning
\* or failing, exactly one next firing is scheduled.
C25_OneTimerAlways == timers = 1

\* C26: record integrity. Every stored record keeps the id, the path and
\* the context it was created with, its id is the key it is stored under,
\* and its type is the typeof of its value, whatever callers do: writing to
\* the fields of ww objects, callbacks given the argument of a tick, extend,
\* ready.
C26_RecordIntegrity ==
  [][ /\ \A k \in DOMAIN _properties :
           /\ _properties'[k].id = _properties[k].id
           /\ _properties'[k].path = _properties[k].path
           /\ _properties'[k].context = _properties[k].context
      /\ \A k \in DOMAIN _properties' :
           /\ _properties'[k].id = k
           /\ _properties'[k].type = TypeOf(_properties'[k].value)
    ]_vars

\* the field f of object o is one that the walk of segs from x reads in h
RECURSIVE OnPath(_, _, _, _, _)
OnPath(h, x, segs, o, f) ==
  /\ segs # <<>>
  /\ HasFields(x)
  /\ \/ x.v = o /\ Head(segs) = f
     \/ OnPath(h, ReadField(h, x, Head(segs)), Tail(segs), o, f)

C28_PendingSetWellFormed ==
  [][ /\ \A i \in DOMAIN _propertiesUnready' :
           /\ IsFunction(_propertiesUnready'[i])
           /\ i \in Issued'
           /\ i \in DOMAIN _properties'
           /\ _properties'[i].id = i
      /\ (last'.op = "set" /\ last'.num \in DOMAIN _propertiesUnready)
           => DOMAIN _propertiesUnready' = DOMAIN _propertiesUnready
      /\ (last'.op = "ready" /\ This.id \in DOMAIN _propertiesUnready)
           => DOMAIN _propertiesUnready' = DOMAIN _propertiesUnready
    ]_vars

\* C28's case: set() has accepted a function for an id that ready() had
\* already made pending, and one entry is pending
C28_Witness ==
  /\ last.op = "set"
  /\ last.ret = "true"
  /\ \E e \in owed : e[1] = last.num /\ e[2] # last.cb
  /\ DOMAIN _propertiesUnready = {last.num}
  /\ _propertiesUnready[last.num] = last.cb

====
